---- MODULE Spec2Model ----
(***************************************************************************)
(* A model of the filestore package: a Filestore handle over a catalog     *)
(* (tables Files and Versions of the sqlite database under the root        *)
(* directory) and the blob files stored under root/<checksum>/<name>.      *)
(*                                                                         *)
(* Strings that the code takes apart (paths, info texts) are sequences of  *)
(* one-character / one-word strings, so that filepath.ToSlash,             *)
(* filepath.FromSlash, filepath.Base and strings.Fields are computed.      *)
(* The catalog and the blob files live on disk: they survive Close and a   *)
(* later Open.  Storage faults (a failing statement, a failing copy) are   *)
(* inputs of Add, the one operation whose error paths the code spells out. *)
(*                                                                         *)
(* Spec is the store under one caller, with the storage faults of Add.     *)
(* SpecSearch is the store with described versions and its searches,       *)
(* SpecRead the store whose history is read while the catalog can be       *)
(* damaged from outside, SpecConc the store under two callers whose Adds   *)
(* run statement by statement, SpecFaulty two such callers adding one      *)
(* rewritten file while lookups, inserts and copies can fail.              *)
(***************************************************************************)
EXTENDS Integers, Sequences, FiniteSets, TLC

\* ------------------------------------------------------------- bounds
MaxVersions == 2      \* rows the Versions table may hold
MaxTime == 1          \* the clock reads seconds 0..MaxTime
MaxLimit == 1         \* limits handed to Versions are 0..MaxLimit

\* ------------------------------------------------------------- inputs
Slash == "/"
Backslash == "\\"

\* os.PathSeparator of the build: "/" (unix) or "\" (windows)
Separators == {Slash, Backslash}

\* the source paths callers hand in
Paths == { <<"a", Backslash, "x">>, <<"b", Slash, "y">> }

\* file contents, and the info and version texts of Add
Contents == {"c1", "c2"}

\* the source files: what a path can hold when Add reads it.  The two paths
\* can hold the same bytes, and the second one is rewritten between Adds.
Sources ==
    { [path |-> <<"a", Backslash, "x">>, content |-> "c1"],
      [path |-> <<"b", Slash, "y">>, content |-> "c1"],
      [path |-> <<"b", Slash, "y">>, content |-> "c2"] }

Infos == { <<"foo", "bar">> }
VersionTags == {"1.0"}

\* the source files of the versions that are searched for, with the info
\* and version texts they are added with
Described ==
    { [path |-> <<"a", Backslash, "x">>, content |-> "c1",
       info |-> <<"foo", "bar">>, version |-> "1.0"],
      [path |-> <<"b", Slash, "y">>, content |-> "c1",
       info |-> <<"foobar">>, version |-> "1.0"],
      [path |-> <<"b", Slash, "y">>, content |-> "c2",
       info |-> <<"baz">>, version |-> "bar"] }

\* one source file, rewritten between the Adds of two callers
Rewritten ==
    { [path |-> <<"b", Slash, "y">>, content |-> "c1"],
      [path |-> <<"b", Slash, "y">>, content |-> "c2"] }

\* the source files of the versions whose history is read
Plain ==
    { [path |-> <<"a", Backslash, "x">>, content |-> "c1"],
      [path |-> <<"b", Slash, "y">>, content |-> "c1"] }

\* the word lists handed to SimpleSearch and the terms handed to Search
WordLists == { <<>>, <<"foo">>, <<"FOO">>, <<"bar">>, <<"foo", "baz">> }
Terms == {"foo", "F"}

\* the zones a caller's time.Time can be in: the hours its wall clock is
\* ahead of UTC, in units of the clock
ZoneOffsets == {0, 1}

\* the statement of Add that a storage fault makes fail, if any
FailPoints == {"none", "checksum", "query", "mkdir", "copy",
               "insertFile", "insertVersion"}

VARIABLES
    sep,        \* os.PathSeparator
    Options,    \* flags.Has(fs.Options, Compress)
    db,         \* fs.db and the prepared statements: "nil", "open", "closed"
    mutex,      \* fs.mutex has been allocated
    Files,      \* table Files: Files[file_id] is the checksum
    Versions,   \* table Versions: Versions[version_id] is the row
    blobs,      \* the files under the root: [at |-> location, bytes |-> ...]
    last,       \* the last call made and what it returned
    calls       \* the Adds under way: how far each caller's Add has got

vars == <<sep, Options, db, mutex, Files, Versions, blobs, last, calls>>

\* ------------------------------------------------------------- paths
\* os.IsPathSeparator: windows accepts both separators
IsPathSeparator(c) == c = Slash \/ (sep = Backslash /\ c = Backslash)

\* filepath.ToSlash: every separator becomes a slash
ToSlash(path) ==
    IF sep = Slash THEN path
    ELSE [i \in DOMAIN path |-> IF path[i] = sep THEN Slash ELSE path[i]]

\* filepath.FromSlash: every slash becomes a separator
FromSlash(path) ==
    IF sep = Slash THEN path
    ELSE [i \in DOMAIN path |-> IF path[i] = Slash THEN sep ELSE path[i]]

\* filepath.Base: the last element of the path
Base(path) ==
    LET seps == {i \in DOMAIN path : IsPathSeparator(path[i])}
        from == IF seps = {} THEN 1
                ELSE (CHOOSE i \in seps : \A j \in seps : j <= i) + 1
    IN  SubSeq(path, from, Len(path))

\* ------------------------------------------------------------- helpers
\* blake2b over the whole file, hex encoded: one digest per content
Checksum(content) ==
    CASE content = "c1" -> "d1"
      [] content = "c2" -> "d2"

\* the primary metaphone code of one word
MetaphoneWord(word) ==
    CASE word = "foo" -> "F"
      [] word = "bar" -> "PR"
      [] word = "baz" -> "PS"
      [] word = "foobar" -> "FPR"
      [] OTHER -> ""

\* EncodeMetaphone: the code of every word of the text
EncodeMetaphone(text) == [i \in DOMAIN text |-> MetaphoneWord(text[i])]

\* ------------------------------------------------------------- texts
\* the characters of a word
Letters(word) ==
    CASE word = "foo" -> <<"f", "o", "o">>
      [] word = "FOO" -> <<"F", "O", "O">>
      [] word = "bar" -> <<"b", "a", "r">>
      [] word = "baz" -> <<"b", "a", "z">>
      [] word = "foobar" -> <<"f", "o", "o", "b", "a", "r">>
      [] word = "1.0" -> <<"1", ".", "0">>

\* the text of an info string: its words, one space between them
RECURSIVE Text(_)
Text(words) ==
    IF words = <<>> THEN <<>>
    ELSE IF Len(words) = 1 THEN Letters(words[1])
    ELSE Letters(words[1]) \o <<" ">> \o Text(Tail(words))

\* sqlite compares the ASCII letters of a LIKE without regard to case
Fold(c) ==
    CASE c = "F" -> "f"
      [] c = "O" -> "o"
      [] OTHER -> c

\* "text like pattern": % stands for any characters, _ for any one
RECURSIVE Like(_, _)
Like(text, pattern) ==
    IF pattern = <<>> THEN text = <<>>
    ELSE IF Head(pattern) = "%"
    THEN Like(text, Tail(pattern)) \/ (text # <<>> /\ Like(Tail(text), pattern))
    ELSE /\ text # <<>>
         /\ (Head(pattern) = "_" \/ Fold(Head(pattern)) = Fold(Head(text)))
         /\ Like(Tail(text), Tail(pattern))

\* safeReplacer.Replace: the characters ' % ; " \ are dropped
safeReplacer(word) ==
    SelectSeq(word, LAMBDA c : c \notin {"'", "%", ";", "\"", "\\"})

\* datetime('now'): the text YYYY-MM-DD HH:MM:SS of the clock's second
DateTimeNow(second) == <<"date", second>>

\* a parse that hands out the zero time for a text that is no date
ParseDBDateZero(text) ==
    IF Len(text) = 2 /\ text[1] = "date"
    THEN [err |-> "nil", time |-> text[2]]
    ELSE [err |-> "nil", time |-> 0]

\* ParseDBDate: the time the text stands for
ParseDBDate(text) ==
    IF Len(text) = 2 /\ text[1] = "date"
    THEN [err |-> "nil", time |-> text[2]]
    ELSE [err |-> "parse", time |-> 0]

\* ToDBDate: the wall clock of the time's own zone, formatted without the zone
ToDBDate(date) == <<"date", date.second + date.offset>>

\* localPath: root/checksum/name
localPath(name, checksum) == <<checksum, name>>

\* the name with the suffix Add appends under the Compress option
SnappyName(name) == Append(name, ".snappy")

\* copyFile when storing: the bytes written at dst
StoredBytes(content, useCompression) ==
    IF useCompression THEN <<"snappy", content>> ELSE <<"raw", content>>

\* copyFile when restoring: the bytes written at the destination
RestoredBytes(bytes, useCompression) ==
    IF useCompression
    THEN IF bytes[1] = "snappy"
         THEN [err |-> "nil", bytes |-> <<"raw", bytes[2]>>]
         ELSE [err |-> "corrupt", bytes |-> <<>>]
    ELSE [err |-> "nil", bytes |-> bytes]

\* os.Open(location) succeeds
Exists(disk, location) == \E b \in disk : b.at = location

\* the bytes of the file at the location
BytesAt(disk, location) == (CHOOSE b \in disk : b.at = location).bytes

\* the files stored under the directory of a digest
StoredFor(disk, digest) == {b \in disk : b.at[1] = digest}

\* os.Remove(location)
Remove(disk, location) == {b \in disk : b.at # location}

\* os.Create(location) and a complete write of the bytes
WriteFile(disk, location, bytes) ==
    Remove(disk, location) \cup {[at |-> location, bytes |-> bytes]}

\* ------------------------------------------------------------- catalog
\* "select file_id from Files where checksum=?" has a row
BlobRowExists(table, check) == \E i \in DOMAIN table : table[i] = check

\* a lookup whose where clause is lost: the first row, whatever its checksum
QueryIDFirstRow(table, check) == IF table = <<>> THEN 0 ELSE 1

\* queryIDStmt: the file_id of the row with the checksum, 0 when none
QueryID(table, check) ==
    IF BlobRowExists(table, check)
    THEN CHOOSE i \in DOMAIN table : table[i] = check
    ELSE 0

\* the insert without the unique index
InsertFileNoIndex(table, check) == TRUE

\* insertFileStmt under the unique index Files_Index
InsertFileOK(table, check) == \A i \in DOMAIN table : table[i] # check

\* an existence query that forgets the path
HasAnyVersion(path) == Versions # <<>>

\* hasVersionStmt
HasVersion(path) == \E i \in DOMAIN Versions : Versions[i].path = path

\* the rows of a path
RowsOf(path) == {i \in DOMAIN Versions : Versions[i].path = path}

Second(i) == Versions[i].date[2]

\* "order by Versions.date desc limit n": every order the statement allows.
\* Rows of equal date come in an order the statement leaves open.
OrderedByDateDesc(rows, limit) ==
    LET n == IF Cardinality(rows) < limit THEN Cardinality(rows) ELSE limit
    IN  { s \in [1..n -> rows] :
            /\ \A i, j \in 1..n : i # j => s[i] # s[j]
            /\ \A i, j \in 1..n : i < j => Second(s[i]) >= Second(s[j])
            /\ \A r \in rows :
                 (\A i \in 1..n : s[i] # r) =>
                     \A i \in 1..n : Second(s[i]) >= Second(r) }

\* the row joined with Files on Versions.file = Files.file_id
RowChecksum(i) == Files[Versions[i].file]

\* Get's FileVersion for row i, asked for by path
GetVersion(i, path) ==
    LET name == Base(path)
    IN  [ID |-> i, Name |-> name, Path |-> Versions[i].path,
         Local |-> localPath(name, RowChecksum(i)),
         Info |-> Versions[i].info, Fuzzy |-> Versions[i].fuzzy,
         Version |-> Versions[i].version,
         From |-> ParseDBDate(Versions[i].date).time,
         Checksum |-> RowChecksum(i)]

\* getVersions' FileVersion for row i
RowVersion(i) ==
    LET path == FromSlash(Versions[i].path)
        name == Base(path)
    IN  [ID |-> i, Name |-> name, Path |-> path,
         Local |-> localPath(name, RowChecksum(i)),
         Info |-> Versions[i].info, Fuzzy |-> Versions[i].fuzzy,
         Version |-> Versions[i].version,
         From |-> ParseDBDate(Versions[i].date).time,
         Checksum |-> RowChecksum(i)]

\* getVersions(rows): the FileVersions of the rows in their order, or
\* ErrInvalidDate when the date of one of them does not parse
getVersions(rows) ==
    IF \E k \in DOMAIN rows : ParseDBDate(Versions[rows[k]].date).err # "nil"
    THEN [err |-> "ErrInvalidDate", out |-> <<>>]
    ELSE [err |-> "nil", out |-> [k \in DOMAIN rows |-> RowVersion(rows[k])]]

\* "order by date limit n": ascending, every order the statement allows
OrderedByDate(rows, limit) ==
    LET n == IF Cardinality(rows) < limit THEN Cardinality(rows) ELSE limit
    IN  { s \in [1..n -> rows] :
            /\ \A i, j \in 1..n : i # j => s[i] # s[j]
            /\ \A i, j \in 1..n : i < j => Second(s[i]) <= Second(s[j])
            /\ \A r \in rows :
                 (\A i \in 1..n : s[i] # r) =>
                     \A i \in 1..n : Second(s[i]) <= Second(r) }

\* buildTerm(column, word) on the column's text: the word at the end, at the
\* start, in the middle, or the whole text
buildTerm(column, word) ==
    LET w == safeReplacer(word)
    IN  \/ Like(column, <<"%", " ">> \o w)
        \/ Like(column, w \o <<" ", "%">>)
        \/ Like(column, <<"%", " ">> \o w \o <<" ", "%">>)
        \/ Like(column, w)

\* a where clause that asks for every word instead of any
SearchTermAll(words, i) ==
    \A k \in DOMAIN words :
        \/ buildTerm(Text(Versions[i].info), Letters(words[k]))
        \/ buildTerm(Letters(Versions[i].version), Letters(words[k]))

\* SimpleSearch's where clause on row i: the terms of every word on the
\* columns info and version, joined with "or"
SearchTerm(words, i) ==
    \E k \in DOMAIN words :
        \/ buildTerm(Text(Versions[i].info), Letters(words[k]))
        \/ buildTerm(Letters(Versions[i].version), Letters(words[k]))

\* the rows of the full-text index VersionsFts: the table is created with
\* content='Versions' and no statement ever inserts into it
VersionsFts == {}

\* ------------------------------------------------------------- calls
NoCall ==
    [op |-> "none", pre |-> "nil", path |-> <<>>, limit |-> 0,
     fail |-> "none", miss |-> FALSE, err |-> "nil", found |-> FALSE,
     out |-> <<>>, digest |-> "", stored |-> 0, wrote |-> FALSE,
     bytes |-> <<>>, rows |-> <<>>, words |-> <<>>, term |-> "",
     after |-> [second |-> 0, offset |-> 0]]

\* a call of op, made with fs.db as it is
Call(op) == [NoCall EXCEPT !.op = op, !.pre = db]

\* the goroutines that call Add at the same time
Callers == {1, 2}

\* a caller with no Add under way
Idle ==
    [pc |-> "idle", src |-> <<>>, fileID |-> 0, err |-> "nil",
     unseen |-> FALSE, overlap |-> FALSE, linked |-> FALSE, whole |-> FALSE]

Init ==
    /\ calls = [p \in Callers |-> Idle]
    /\ sep \in Separators
    /\ Options \in BOOLEAN
    /\ db = "nil"
    /\ mutex = FALSE
    /\ Files = <<>>
    /\ Versions = <<>>
    /\ blobs = {}
    /\ last = NoCall

\* an Open that creates its tables anew
OpenAnew ==
    /\ db' = "open"
    /\ mutex' = TRUE
    /\ Files' = <<>>
    /\ Versions' = <<>>
    /\ last' = Call("Open")
    /\ UNCHANGED <<sep, Options, blobs, calls>>

\* Open: a new mutex, a new database handle on the same file, the tables
\* created if they do not exist, the statements prepared
Open ==
    /\ db' = "open"
    /\ mutex' = TRUE
    /\ last' = Call("Open")
    /\ UNCHANGED <<sep, Options, Files, Versions, blobs, calls>>

\* Close: locks fs.mutex (a nil pointer before the first Open), closes four
\* statements and the database; fs.db keeps pointing at the closed handle
Close ==
    /\ IF mutex
       THEN /\ db' = "closed"
            /\ last' = Call("Close")
       ELSE /\ db' = db
            /\ last' = [Call("Close") EXCEPT !.err = "panic"]
    /\ UNCHANGED <<sep, Options, mutex, Files, Versions, blobs, calls>>

\* ensureDirectory(filepath.Dir(dst)): os.MkdirAll when the directory is absent
ensureDirectory(fail) == IF fail = "mkdir" THEN "mkdir" ELSE "nil"

\* a copy that drops the error of io.Copy
copyFileNoError(disk, content, dst, useCompression, fail) ==
    [err |-> "nil",
     disk |-> WriteFile(disk, dst, IF fail = "copy" THEN <<"partial", content>>
                                   ELSE StoredBytes(content, useCompression))]

\* copyFile(src, dst, useCompression, false): dst is created (truncated when
\* it exists) and the source copied into it; a copy that fails stops midway
copyFile(disk, content, dst, useCompression, fail) ==
    IF fail = "copy"
    THEN [err |-> "copy", disk |-> WriteFile(disk, dst, <<"partial", content>>)]
    ELSE [err |-> "nil",
          disk |-> WriteFile(disk, dst, StoredBytes(content, useCompression))]

\* an insert that replaces the newest row of the same path, when there is one
UpsertVersionRow(table, row) ==
    IF \E i \in DOMAIN table : table[i].path = row.path
    THEN LET i == CHOOSE k \in DOMAIN table :
                      /\ table[k].path = row.path
                      /\ \A j \in DOMAIN table : table[j].path = row.path => j <= k
         IN  [table EXCEPT ![i] = row]
    ELSE Append(table, row)

\* insertVersionStmt: one new row, version_id the next integer
InsertVersionRow(table, row) == Append(table, row)

\* addVersion(path, info, version, check) on an open store, the source file
\* holding content, the clock reading second, with a fault at fail; miss: the
\* lookup's rows.Next() ends on an error, which is not looked at.
\* The result: the error, the tables and files left behind, and whether
\* copyFile wrote the blob.
addVersion(path, info, version, content, second, fail, miss) ==
    LET check == Checksum(content)
        name == Base(path)
        slashPath == ToSlash(path)
        \* rows.Next() is false when the lookup fails midway: fileID stays 0
        fileID == IF miss THEN 0 ELSE QueryID(Files, check)
        file == localPath(name, check)
        dst == IF Options THEN localPath(SnappyName(name), check) ELSE file
        copy == copyFile(blobs, content, dst, Options, fail)
        row(id) == [path |-> slashPath, info |-> info,
                    fuzzy |-> EncodeMetaphone(info), version |-> version,
                    date |-> DateTimeNow(second), file |-> id]
        done(err, f, v, b, w) ==
            [err |-> err, files |-> f, versions |-> v, blobs |-> b, wrote |-> w]
        insertVersion(f, id, b, w) ==
            IF fail = "insertVersion"
            THEN done("db", f, Versions, b, w)
            ELSE done("nil", f, InsertVersionRow(Versions, row(id)), b, w)
    IN  IF fail = "query"
        THEN done("db", Files, Versions, blobs, FALSE)
        ELSE IF fileID # 0
        THEN insertVersion(Files, fileID, blobs, FALSE)
        ELSE IF ensureDirectory(fail) # "nil"
        THEN done("mkdir", Files, Versions, blobs, FALSE)
        ELSE IF copy.err # "nil"
        THEN done("copy", Files, Versions, Remove(copy.disk, dst), FALSE)
        ELSE IF fail = "insertFile" \/ ~InsertFileOK(Files, check)
        THEN done("db", Files, Versions, copy.disk, TRUE)
        ELSE insertVersion(Append(Files, check), Len(Files) + 1, copy.disk, TRUE)

\* the seconds the clock can read now: that of the newest row or the next
\* one, counted from the first row's
Clock ==
    LET dated == {i \in DOMAIN Versions :
                     ParseDBDate(Versions[i].date).err = "nil"}
        newest == IF dated = {} THEN 0
                  ELSE Second(CHOOSE i \in dated : \A j \in dated : j <= i)
    IN  {t \in {newest, newest + 1} : t <= MaxTime}

\* a fault can be met only where addVersion gets to: the lookup can miss a
\* row only when there is one, and the blob is written only when no row was
\* found.  One Add meets one fault: a missed lookup or a failing statement.
Reached(fail, miss, check) ==
    /\ miss => (BlobRowExists(Files, check) /\ fail = "none")
    /\ fail \in {"mkdir", "copy", "insertFile"} => ~BlobRowExists(Files, check)

\* an Add that takes the checksum while it stores: a checksum that fails is
\* found after addVersion has run
AddCallLateChecksum(src, info, version, second, fail, miss) ==
        LET call == [Call("Add") EXCEPT
                        !.path = src.path, !.fail = fail, !.miss = miss,
                        !.digest = Checksum(src.content),
                        !.stored = Cardinality(StoredFor(blobs,
                                                   Checksum(src.content)))]
            r == addVersion(src.path, info, version, src.content, second,
                            fail, miss)
        IN  /\ Len(Versions) < MaxVersions
            /\ Reached(fail, miss, Checksum(src.content))
            /\ IF db = "nil"
               THEN /\ fail = "none" /\ ~miss
                    /\ last' = [call EXCEPT !.err = "ErrNotOpen"]
                    /\ UNCHANGED <<Files, Versions, blobs>>
               ELSE IF db = "closed"
               THEN /\ fail = "none" /\ ~miss
                    /\ last' = [call EXCEPT !.err = "db"]
                    /\ UNCHANGED <<Files, Versions, blobs>>
               ELSE /\ last' = [call EXCEPT
                                   !.err = IF fail = "checksum" THEN "checksum"
                                           ELSE r.err,
                                   !.wrote = r.wrote]
                    /\ Files' = r.files
                    /\ Versions' = r.versions
                    /\ blobs' = r.blobs
            /\ UNCHANGED <<sep, Options, db, mutex, calls>>

\* Add(path, info, version) of a source file, with the clock and the fault
\* it meets: fs.db is checked, the checksum taken, then addVersion.  After
\* Close fs.db still points at the closed handle, and the closed queryIDStmt
\* fails.
AddCall(src, info, version, second, fail, miss) ==
        LET path == src.path
            content == src.content
            call == [Call("Add") EXCEPT
                        !.path = path, !.fail = fail, !.miss = miss,
                        !.digest = Checksum(content),
                        !.stored = Cardinality(StoredFor(blobs, Checksum(content)))]
            r == addVersion(path, info, version, content, second, fail, miss)
        IN  /\ Len(Versions) < MaxVersions
            /\ Reached(fail, miss, Checksum(content))
            /\ IF db = "nil"
               THEN /\ fail = "none" /\ ~miss
                    /\ last' = [call EXCEPT !.err = "ErrNotOpen"]
                    /\ UNCHANGED <<Files, Versions, blobs>>
               ELSE IF fail = "checksum"
               THEN /\ last' = [call EXCEPT !.err = "checksum"]
                    /\ UNCHANGED <<Files, Versions, blobs>>
               ELSE IF db = "closed"
               THEN /\ fail = "none" /\ ~miss
                    /\ last' = [call EXCEPT !.err = "db"]
                    /\ UNCHANGED <<Files, Versions, blobs>>
               ELSE /\ last' = [call EXCEPT !.err = r.err, !.wrote = r.wrote]
                    /\ Files' = r.files
                    /\ Versions' = r.versions
                    /\ blobs' = r.blobs
            /\ UNCHANGED <<sep, Options, db, mutex, calls>>

\* Add, with the faults of the storage
Add ==
    \E src \in Sources, info \in Infos, version \in VersionTags,
       second \in Clock, fail \in FailPoints, miss \in BOOLEAN :
        AddCall(src, info, version, second, fail, miss)

\* Add of a described version, on a storage without faults
AddText ==
    \E src \in Described, second \in Clock :
        AddCall(src, src.info, src.version, second, "none", FALSE)

\* Add of a version whose history is read, on a storage without faults
AddPlain ==
    \E src \in Plain, info \in Infos, version \in VersionTags,
       second \in Clock :
        AddCall(src, info, version, second, "none", FALSE)

\* Has(file)
Has ==
    \E file \in Paths :
        /\ last' = [Call("Has") EXCEPT
                       !.path = file,
                       !.found = (db = "open" /\ HasVersion(ToSlash(file)))]
        /\ UNCHANGED <<sep, Options, db, mutex, Files, Versions, blobs, calls>>

\* Get(path): the first row of "order by Versions.date desc limit 1"
Get ==
    \E path \in Paths :
        LET call == [Call("Get") EXCEPT !.path = path]
            rows == RowsOf(ToSlash(path))
        IN  /\ IF db = "nil"
               THEN last' = [call EXCEPT !.err = "ErrNotOpen"]
               ELSE IF db = "closed" \/ rows = {}
               THEN last' = [call EXCEPT !.err = "db"]
               ELSE \E s \in OrderedByDateDesc(rows, 1) :
                       IF ParseDBDate(Versions[s[1]].date).err # "nil"
                       THEN last' = [call EXCEPT !.err = "ErrInvalidDate",
                                                 !.rows = s]
                       ELSE last' = [call EXCEPT
                                       !.out = <<GetVersion(s[1], path)>>,
                                       !.rows = s]
            /\ UNCHANGED <<sep, Options, db, mutex, Files, Versions, blobs, calls>>

\* Versions(path, limit): the path goes to the statement as given
VersionsOf ==
    \E path \in Paths, limit \in 0..MaxLimit :
        LET call == [Call("Versions") EXCEPT !.path = path, !.limit = limit]
        IN  /\ IF db = "nil"
               THEN last' = [call EXCEPT !.err = "ErrNotOpen"]
               ELSE IF db = "closed"
               THEN last' = [call EXCEPT !.err = "db"]
               ELSE \E s \in OrderedByDateDesc(RowsOf(path), limit) :
                       last' = [call EXCEPT !.err = getVersions(s).err,
                                            !.out = getVersions(s).out,
                                            !.rows = s]
            /\ UNCHANGED <<sep, Options, db, mutex, Files, Versions, blobs, calls>>

\* the FileVersions a caller can hold: what Get and Versions hand out
Obtainable ==
    UNION { {GetVersion(i, path) : path \in {p \in Paths : ToSlash(p) = Versions[i].path}}
            \cup {RowVersion(i)} : i \in DOMAIN Versions }

\* Restore(version, dst): copyFile from the blob's location, no check of fs.db
Restore ==
    \E version \in Obtainable :
        LET call == [Call("Restore") EXCEPT !.out = <<version>>,
                                            !.digest = version.Checksum]
            srcFile == localPath(version.Name, version.Checksum)
        IN  /\ IF ~Exists(blobs, srcFile)
               THEN last' = [call EXCEPT !.err = "open"]
               ELSE LET r == RestoredBytes(BytesAt(blobs, srcFile), Options)
                    IN  last' = [call EXCEPT !.err = r.err, !.bytes = r.bytes]
            /\ UNCHANGED <<sep, Options, db, mutex, Files, Versions, blobs, calls>>

\* VersionsAfter(path, after, limit): the date column is compared, as text,
\* with ToDBDate(after); the path goes to the statement as given
VersionsAfter ==
    \E path \in Paths, limit \in 0..MaxLimit,
       second \in 0..MaxTime, offset \in ZoneOffsets :
        LET after == [second |-> second, offset |-> offset]
            call == [Call("VersionsAfter") EXCEPT
                        !.path = path, !.limit = limit, !.after = after]
            rows == {i \in RowsOf(path) : Second(i) > ToDBDate(after)[2]}
        IN  /\ IF db = "nil"
               THEN last' = [call EXCEPT !.err = "ErrNotOpen"]
               ELSE IF db = "closed"
               THEN last' = [call EXCEPT !.err = "db"]
               ELSE \E s \in OrderedByDateDesc(rows, limit) :
                       last' = [call EXCEPT !.err = getVersions(s).err,
                                            !.out = getVersions(s).out,
                                            !.rows = s]
            /\ UNCHANGED <<sep, Options, db, mutex, Files, Versions, blobs, calls>>

\* SimpleSearch(words, limit): with no words the statement has an empty
\* where clause and does not compile
SimpleSearch ==
    \E words \in WordLists, limit \in 0..MaxLimit :
        LET call == [Call("SimpleSearch") EXCEPT
                        !.words = words, !.limit = limit]
            rows == {i \in DOMAIN Versions : SearchTerm(words, i)}
        IN  /\ IF db = "nil"
               THEN last' = [call EXCEPT !.err = "ErrNotOpen"]
               ELSE IF db = "closed" \/ words = <<>>
               THEN last' = [call EXCEPT !.err = "db"]
               ELSE \E s \in OrderedByDate(rows, limit) :
                       last' = [call EXCEPT !.err = getVersions(s).err,
                                            !.out = getVersions(s).out,
                                            !.rows = s]
            /\ UNCHANGED <<sep, Options, db, mutex, Files, Versions, blobs, calls>>

\* search(term, limit, fuzzy): a select on VersionsFts with three "match"
\* joined by "or", ordered by date ascending.  The statement fails where the
\* build has no FTS5 (the error of "create virtual table" is dropped in Open)
\* or where sqlite cannot use "match" under "or"; where it runs, it finds
\* the rows of the index.
search(op, term, limit, fuzzy) ==
        LET call == [Call(op) EXCEPT !.term = term, !.limit = limit]
            column(i) == IF fuzzy THEN Versions[i].fuzzy ELSE Versions[i].info
            rows == {i \in VersionsFts :
                        \/ \E k \in DOMAIN column(i) : column(i)[k] = term
                        \/ Versions[i].version = term}
        IN  /\ IF db = "nil"
               THEN last' = [call EXCEPT !.err = "ErrNotOpen"]
               ELSE IF db = "closed"
               THEN last' = [call EXCEPT !.err = "db"]
               ELSE \/ last' = [call EXCEPT !.err = "db"]
                    \/ \E s \in OrderedByDate(rows, limit) :
                          last' = [call EXCEPT !.err = getVersions(s).err,
                                               !.out = getVersions(s).out,
                                               !.rows = s]
            /\ UNCHANGED <<sep, Options, db, mutex, Files, Versions, blobs, calls>>

\* Search(term, limit)
Search ==
    \E term \in Terms, limit \in 0..MaxLimit :
        search("Search", term, limit, FALSE)

\* FuzzySearch(term, limit)
FuzzySearch ==
    \E term \in Terms, limit \in 0..MaxLimit :
        search("FuzzySearch", term, limit, TRUE)

\* the date texts a damaged catalog can hold: texts that do not parse, one
\* that sorts before every date and one that sorts after
CorruptDates == { <<"bad", 0 - 1>>, <<"bad", MaxTime + 2>> }

\* the catalog file is changed from outside: the date of one row is no date
Corrupt ==
    \E i \in DOMAIN Versions, text \in CorruptDates :
        /\ \A j \in DOMAIN Versions : ParseDBDate(Versions[j].date).err = "nil"
        /\ Versions' = [Versions EXCEPT ![i].date = text]
        /\ last' = Call("Corrupt")
        /\ UNCHANGED <<sep, Options, db, mutex, Files, blobs, calls>>

Next == Open \/ Close \/ Add \/ Has \/ Get \/ VersionsOf \/ Restore

Spec == Init /\ [][Next]_vars

\* ------------------------------------------------------------- Adds at the same time
\* Add and addVersion take no lock (fs.mutex is locked by Open and Close
\* only), so the statements of two Adds interleave.

\* the Add of a caller has returned err: its arguments and what is known of
\* its course stay, its local variables are gone
Done(call, err) ==
    [Idle EXCEPT !.pc = "done", !.src = call.src, !.err = err,
                 !.unseen = call.unseen, !.overlap = call.overlap]

\* the callers with an Add under way
Busy == {q \in Callers : calls[q].pc \notin {"idle", "done"}}

\* where the Add of caller p writes its blob
Dst(p) ==
    LET name == Base(calls[p].src.path)
        check == Checksum(calls[p].src.content)
    IN  IF Options THEN localPath(SnappyName(name), check)
        ELSE localPath(name, check)

\* the callers other than p that hold the file at p's destination open for
\* writing
Writers(p) ==
    {q \in Callers \ {p} :
        calls[q].pc = "copy" /\ calls[q].linked /\ Dst(q) = Dst(p)}

\* Add up to the lookup: fs.db is checked, the checksum taken, and
\* queryIDStmt asked for the file_id of the checksum
LookupOf(p, sources) ==
    \E src \in sources, info \in Infos, version \in VersionTags :
        LET args == [path |-> src.path, content |-> src.content,
                     info |-> info, version |-> version]
            id == QueryID(Files, Checksum(src.content))
            begun == [Idle EXCEPT !.src = args]
        IN  /\ calls[p].pc \in {"idle", "done"}
            /\ Len(Versions) + Cardinality(Busy) < MaxVersions
            /\ IF db # "open"
               THEN calls' = [calls EXCEPT ![p] =
                        [begun EXCEPT !.pc = "done",
                            !.err = IF db = "nil" THEN "ErrNotOpen" ELSE "db"]]
               ELSE calls' = [q \in Callers |->
                        IF q = p
                        THEN [begun EXCEPT
                                !.pc = IF id # 0 THEN "insertVersion" ELSE "create",
                                !.fileID = id, !.unseen = (id = 0),
                                !.overlap = (Busy # {})]
                        ELSE IF q \in Busy
                        THEN [calls[q] EXCEPT !.overlap = TRUE]
                        ELSE calls[q]]
            /\ UNCHANGED <<sep, Options, db, mutex, Files, Versions, blobs, last>>

\* the lookup of an Add of any source file
Lookup(p) == LookupOf(p, Sources)

\* the lookup of an Add of the file that is rewritten between Adds
LookupRewritten(p) == LookupOf(p, Rewritten)

\* ensureDirectory and the head of copyFile: os.Create makes the destination
\* or truncates it, also under another caller that is writing it
Create(p) ==
    /\ calls[p].pc = "create"
    /\ blobs' = WriteFile(blobs, Dst(p), <<"partial", calls[p].src.content>>)
    /\ calls' = [q \in Callers |->
            IF q = p
            THEN [calls[p] EXCEPT !.pc = "copy", !.linked = TRUE, !.whole = TRUE]
            ELSE IF q \in Writers(p)
            THEN [calls[q] EXCEPT !.whole = FALSE]
            ELSE calls[q]]
    /\ UNCHANGED <<sep, Options, db, mutex, Files, Versions, last>>

\* io.Copy runs to its end: the file holds all bytes when it is still at the
\* destination and was not truncated under the caller
CopyDone(p) ==
    /\ calls[p].pc = "copy"
    /\ blobs' = IF calls[p].linked /\ calls[p].whole
                THEN WriteFile(blobs, Dst(p),
                               StoredBytes(calls[p].src.content, Options))
                ELSE blobs
    /\ calls' = [calls EXCEPT ![p].pc = "insertFile"]
    /\ UNCHANGED <<sep, Options, db, mutex, Files, Versions, last>>

\* io.Copy fails: copyFile closes the file, addVersion removes the
\* destination and returns.  On windows a file that another caller holds
\* open is not removed; elsewhere it is unlinked under the other caller,
\* whose bytes go to no file.
CopyFailed(p) ==
    /\ calls[p].pc = "copy"
    /\ IF sep = Backslash /\ Writers(p) # {}
       THEN /\ blobs' = blobs
            /\ calls' = [calls EXCEPT ![p] = Done(calls[p], "copy")]
       ELSE /\ blobs' = Remove(blobs, Dst(p))
            /\ calls' = [q \in Callers |->
                    IF q = p
                    THEN Done(calls[p], "copy")
                    ELSE IF q \in Writers(p)
                    THEN [calls[q] EXCEPT !.linked = FALSE]
                    ELSE calls[q]]
    /\ UNCHANGED <<sep, Options, db, mutex, Files, Versions, last>>

\* an insert that does not take the new row's identity: fileID stays 0
InsertFileNoID(p) ==
    LET check == Checksum(calls[p].src.content)
    IN  /\ calls[p].pc = "insertFile"
        /\ IF InsertFileOK(Files, check)
           THEN /\ Files' = Append(Files, check)
                /\ calls' = [calls EXCEPT ![p].pc = "insertVersion"]
           ELSE /\ Files' = Files
                /\ calls' = [calls EXCEPT ![p] = Done(calls[p], "db")]
        /\ UNCHANGED <<sep, Options, db, mutex, Versions, blobs, last>>

\* insertFileStmt and LastInsertId
InsertFile(p) ==
    LET check == Checksum(calls[p].src.content)
    IN  /\ calls[p].pc = "insertFile"
        /\ IF InsertFileOK(Files, check)
           THEN /\ Files' = Append(Files, check)
                /\ calls' = [calls EXCEPT ![p].pc = "insertVersion",
                                          ![p].fileID = Len(Files) + 1]
           ELSE /\ Files' = Files
                /\ calls' = [calls EXCEPT ![p] = Done(calls[p], "db")]
        /\ UNCHANGED <<sep, Options, db, mutex, Versions, blobs, last>>

\* insertVersionStmt, and the return of Add
InsertVersion(p) ==
    \E second \in Clock :
        LET args == calls[p].src
            row == [path |-> ToSlash(args.path), info |-> args.info,
                    fuzzy |-> EncodeMetaphone(args.info),
                    version |-> args.version,
                    date |-> DateTimeNow(second), file |-> calls[p].fileID]
        IN  /\ calls[p].pc = "insertVersion"
            /\ Versions' = InsertVersionRow(Versions, row)
            /\ calls' = [calls EXCEPT ![p] = Done(calls[p], "nil")]
            /\ UNCHANGED <<sep, Options, db, mutex, Files, blobs, last>>

\* the lookup fails: queryIDStmt.Query returns an error, and so does Add
LookupFailed(p) ==
    \E src \in Rewritten, info \in Infos, version \in VersionTags :
        LET args == [path |-> src.path, content |-> src.content,
                     info |-> info, version |-> version]
        IN  /\ calls[p].pc \in {"idle", "done"}
            /\ Len(Versions) + Cardinality(Busy) < MaxVersions
            /\ db = "open"
            /\ calls' = [q \in Callers |->
                    IF q = p
                    THEN [Idle EXCEPT !.src = args, !.pc = "done", !.err = "db",
                                      !.overlap = (Busy # {})]
                    ELSE IF q \in Busy
                    THEN [calls[q] EXCEPT !.overlap = TRUE]
                    ELSE calls[q]]
            /\ UNCHANGED <<sep, Options, db, mutex, Files, Versions, blobs, last>>

\* the lookup misses a row that is there: rows.Next() ends on an error that
\* is not looked at, fileID stays 0 and the blob is written again
LookupMissed(p) ==
    \E src \in Rewritten, info \in Infos, version \in VersionTags :
        LET args == [path |-> src.path, content |-> src.content,
                     info |-> info, version |-> version]
        IN  /\ calls[p].pc \in {"idle", "done"}
            /\ Len(Versions) + Cardinality(Busy) < MaxVersions
            /\ db = "open"
            /\ BlobRowExists(Files, Checksum(src.content))
            /\ calls' = [q \in Callers |->
                    IF q = p
                    THEN [Idle EXCEPT !.src = args, !.pc = "create",
                                      !.overlap = (Busy # {})]
                    ELSE IF q \in Busy
                    THEN [calls[q] EXCEPT !.overlap = TRUE]
                    ELSE calls[q]]
            /\ UNCHANGED <<sep, Options, db, mutex, Files, Versions, blobs, last>>

\* insertFileStmt.Exec or LastInsertId returns an error, and so does Add
InsertFileFailed(p) ==
    /\ calls[p].pc = "insertFile"
    /\ calls' = [calls EXCEPT ![p] = Done(calls[p], "db")]
    /\ UNCHANGED <<sep, Options, db, mutex, Files, Versions, blobs, last>>

\* insertVersionStmt.Exec returns an error, and so does Add
InsertVersionFailed(p) ==
    /\ calls[p].pc = "insertVersion"
    /\ calls' = [calls EXCEPT ![p] = Done(calls[p], "db")]
    /\ UNCHANGED <<sep, Options, db, mutex, Files, Versions, blobs, last>>

\* the store with two callers of Add and a reader
NextConc ==
    \/ Open \/ Restore
    \/ \E p \in Callers : Lookup(p)
    \/ \E p \in Callers : Create(p)
    \/ \E p \in Callers : CopyDone(p)
    \/ \E p \in Callers : CopyFailed(p)
    \/ \E p \in Callers : InsertFile(p)
    \/ \E p \in Callers : InsertVersion(p)

SpecConc == Init /\ [][NextConc]_vars

\* a store made without the Compress option
InitPlain == Init /\ ~Options

\* the store with two callers of Add, of one file that is rewritten, whose
\* statements can fail
NextFaulty ==
    \/ Open
    \/ \E p \in Callers : LookupRewritten(p)
    \/ \E p \in Callers : LookupFailed(p)
    \/ \E p \in Callers : LookupMissed(p)
    \/ \E p \in Callers : Create(p)
    \/ \E p \in Callers : CopyDone(p)
    \/ \E p \in Callers : CopyFailed(p)
    \/ \E p \in Callers : InsertFile(p)
    \/ \E p \in Callers : InsertFileFailed(p)
    \/ \E p \in Callers : InsertVersion(p)
    \/ \E p \in Callers : InsertVersionFailed(p)

SpecFaulty == InitPlain /\ [][NextFaulty]_vars

\* the store with described versions and its searches
NextSearch == Open \/ AddText \/ SimpleSearch \/ Search \/ FuzzySearch

SpecSearch == InitPlain /\ [][NextSearch]_vars

\* the store whose history is read, with a catalog that can be damaged
\* from outside
NextRead ==
    \/ Open \/ AddPlain \/ Corrupt
    \/ Get \/ VersionsOf \/ VersionsAfter
    \/ SimpleSearch \/ Search \/ FuzzySearch

SpecRead == InitPlain /\ [][NextRead]_vars

\* ------------------------------------------------------------- properties
Digests == {Checksum(c) : c \in Contents}

\* the content a digest was taken from
ContentOf(digest) == CHOOSE c \in Contents : Checksum(c) = digest

\* the blob rows of a digest
BlobRows(table, digest) == {i \in DOMAIN table : table[i] = digest}

IsPrefix(s, t) == Len(s) <= Len(t) /\ \A i \in DOMAIN s : s[i] = t[i]

\* the newest row of a path in the catalog: the one with the highest identity
NewestRow(path) ==
    CHOOSE i \in RowsOf(path) : \A j \in RowsOf(path) : j <= i

C2_OneBlobRowPerDigest ==
    /\ \A d \in Digests : Cardinality(BlobRows(Files, d)) <= 1
    /\ \A i \in DOMAIN Versions :
          /\ Versions[i].file \in DOMAIN Files
          /\ Cardinality(BlobRows(Files, RowChecksum(i))) = 1
    /\ (last.op = "Add" /\ last.err = "nil") =>
          Cardinality(BlobRows(Files, last.digest)) = 1

\* C2 witness: an Add whose lookup missed the digest's row wrote the blob
\* again and was stopped at the blob-row insert
C2_Witness ==
    /\ last.op = "Add" /\ last.miss /\ last.err = "db" /\ last.wrote
    /\ Cardinality(BlobRows(Files, last.digest)) = 1

\* C3 - Round trip (the claim as stated): Restore of a FileVersion handed out
\* by Get or Versions succeeds and writes the content the record was added
\* with.
C3_RoundTrip ==
    last.op = "Restore" =>
        /\ last.err = "nil"
        /\ last.bytes = <<"raw", ContentOf(last.digest)>>

\* C4 - Existence: Has on an open store is true exactly when a version row
\* exists for the normalized path; it is true right after a successful Add of
\* the path, and true again whenever it was true before.
C4_Existence ==
    [][ (last'.op = "Has" /\ last'.pre = "open")
        => /\ last'.found <=>
                 \E i \in DOMAIN Versions' :
                     Versions'[i].path = ToSlash(last'.path)
           /\ (last.op = "Add" /\ last.err = "nil" /\ last.path = last'.path)
                 => last'.found
           /\ (last.op = "Has" /\ last.found /\ last.path = last'.path)
                 => last'.found
      ]_vars

\* C4 witness: Has finds a path that Add stored in its slash form
C4_Witness ==
    /\ last.op = "Has" /\ last.pre = "open" /\ last.found
    /\ ToSlash(last.path) # last.path

\* C5 - History ordering (the claim as stated), for a path given in its
\* catalog form: Versions returns at most limit records, all of the path,
\* newest first by identity, and they are the newest ones of the path.
C5_HistoryOrdering ==
    (last.op = "Versions" /\ last.err = "nil" /\ ToSlash(last.path) = last.path)
    => LET out == last.out
           rows == RowsOf(last.path)
       IN  /\ Len(out) <= last.limit
           /\ \A k \in DOMAIN out : out[k].ID \in rows
           /\ \A k, l \in DOMAIN out : k < l => out[k].ID > out[l].ID
           /\ \A r \in rows :
                 (\A k \in DOMAIN out : out[k].ID # r) =>
                     /\ Len(out) = last.limit
                     /\ \A k \in DOMAIN out : out[k].ID > r

\* C6 - Get agrees with Versions (the claim as stated): Versions(path, 1)
\* asked right after a successful Get(path) returns one record, equal to
\* Get's in every field.
C6_GetIsFirstOfVersions ==
    [][ ( /\ last.op = "Get" /\ last.err = "nil"
          /\ last'.op = "Versions" /\ last'.limit = 1
          /\ last'.path = last.path )
        => /\ last'.err = "nil"
           /\ Len(last'.out) = 1
           /\ last'.out[1] = last.out[1]
      ]_vars

\* C7 - Latest (the claim as stated): a successful Get returns the record of
\* the most recent Add of the path.
C7_GetReturnsNewest ==
    (last.op = "Get" /\ last.err = "nil")
    => last.out[1].ID = NewestRow(ToSlash(last.path))

\* C8 - Lifecycle (the claim as stated): a call other than Open on a store
\* that is not open fails with ErrNotOpen; Has, which returns no error,
\* answers false.
C8_NotOpen ==
    (last.op \notin {"none", "Open"} /\ last.pre # "open")
    => IF last.op = "Has" THEN ~last.found ELSE last.err = "ErrNotOpen"

\* C9 - All or nothing: an Add that finds no blob row for its digest and
\* whose directory creation or copy fails returns an error and leaves the
\* blob rows and the version rows as they were.
C9_BlobFailureLeavesCatalog ==
    [][ ( /\ last'.op = "Add" /\ last'.pre = "open"
          /\ last'.fail \in {"mkdir", "copy"}
          /\ BlobRows(Files, last'.digest) = {} )
        => /\ last'.err # "nil"
           /\ Files' = Files
           /\ Versions' = Versions
      ]_vars

\* C9 witness: a copy has just failed in a store that holds versions
C9_Witness ==
    /\ last.op = "Add" /\ last.fail = "copy" /\ last.err = "copy"
    /\ Versions # <<>>

\* C10 - Append only: every call leaves the version rows it found as they
\* were, with the blob row each references; a successful Add appends exactly
\* one row and no other call adds any.
C10_AppendOnly ==
    [][ /\ IsPrefix(Versions, Versions')
        /\ \A i \in DOMAIN Versions : Files'[Versions'[i].file] = RowChecksum(i)
        /\ IF last'.op = "Add" /\ last'.err = "nil"
           THEN Len(Versions') = Len(Versions) + 1
           ELSE Versions' = Versions
      ]_vars

\* C10 witness: a second version has just been added for a path that had one
C10_Witness ==
    /\ last.op = "Add" /\ last.err = "nil"
    /\ Len(Versions) = 2
    /\ Versions[1].path = Versions[2].path

\* the text holds the word: as the whole text, at its start, at its end or
\* anywhere inside
Contains(text, word) ==
    \E k \in 0..(Len(text) - Len(word)) : SubSeq(text, k + 1, k + Len(word)) = word

\* the identities of the records a call returned
Returned == {last.out[k].ID : k \in DOMAIN last.out}

\* C11 - SimpleSearch matching (the claim as stated): a search for one word
\* with a limit of at least the number of versions returns exactly the
\* versions whose info or version text contains the word.
C11_SimpleSearchMatching ==
    ( /\ last.op = "SimpleSearch" /\ last.pre = "open"
      /\ Len(last.words) = 1 /\ last.limit >= Len(Versions) )
    => /\ last.err = "nil"
       /\ Returned =
             {i \in DOMAIN Versions :
                 \/ Contains(Text(Versions[i].info), Letters(last.words[1]))
                 \/ Contains(Letters(Versions[i].version), Letters(last.words[1]))}

\* a word without regard to the case of its letters
Lower(word) == IF word = "FOO" THEN "foo" ELSE word

\* the word is one of the words of the row's info text, or its version text
WordOf(i, word) ==
    \/ \E k \in DOMAIN Versions[i].info : Lower(Versions[i].info[k]) = Lower(word)
    \/ Lower(Versions[i].version) = Lower(word)

\* the rows that match any word of a list in either field
MatchAny(words) ==
    {i \in DOMAIN Versions : \E k \in DOMAIN words : WordOf(i, words[k])}

MatchTerm(term, fuzzy) ==
    {i \in DOMAIN Versions :
        \/ \E k \in DOMAIN Versions[i].info :
              IF fuzzy THEN Versions[i].fuzzy[k] = term
              ELSE Versions[i].info[k] = term
        \/ Versions[i].version = term}

\* C13 - Full-text search (the claim as stated): a Search or FuzzySearch that
\* succeeds returns the versions that match the term, newest first by
\* timestamp, at most limit of them; a matching version is left out only
\* when the limit is reached, and then no returned record is older than it.
C13_SearchNewestFirst ==
    ( /\ last.op \in {"Search", "FuzzySearch"} /\ last.pre = "open"
      /\ last.err = "nil" )
    => LET out == last.out
           match == MatchTerm(last.term, last.op = "FuzzySearch")
       IN  /\ Len(out) <= last.limit
           /\ Returned \subseteq match
           /\ \A k, l \in DOMAIN out : k < l => out[k].From >= out[l].From
           /\ \A r \in match \ Returned :
                 /\ Len(out) = last.limit
                 /\ \A k \in DOMAIN out : out[k].From >= Second(r)

\* the date text of the row is no date
Damaged(i) == Versions[i].date[1] # "date"

\* C14 - VersionsAfter (the claim as stated), in a catalog whose dates are
\* all dates: VersionsAfter returns at most limit records, each of a row that
\* Versions finds for the path and that was stamped strictly after the
\* instant `after`, newest first; such a row is left out only when the limit
\* is reached, and then no returned record is older than it.
C14_VersionsAfter ==
    ( /\ last.op = "VersionsAfter" /\ last.pre = "open"
      /\ \A i \in DOMAIN Versions : ~Damaged(i) )
    => LET out == last.out
           later == {i \in RowsOf(last.path) : Second(i) > last.after.second}
       IN  /\ last.err = "nil"
           /\ Len(out) <= last.limit
           /\ Returned \subseteq later
           /\ \A k, l \in DOMAIN out : k < l => out[k].From >= out[l].From
           /\ \A r \in later \ Returned :
                 /\ Len(out) = last.limit
                 /\ \A k \in DOMAIN out : out[k].From >= Second(r)

\* C15 - Open keeps the data: an Open, the first one, one after Close or one
\* without Close, leaves every blob row, version row and stored blob as it
\* was and the store open; a Get right after it finds the path of every
\* version row.
C15_OpenKeepsData ==
    [][ /\ last'.op = "Open"
           => /\ Files' = Files /\ Versions' = Versions /\ blobs' = blobs
              /\ db' = "open"
        /\ ( /\ last.op = "Open" /\ last'.op = "Get"
             /\ \E i \in DOMAIN Versions : Versions[i].path = ToSlash(last'.path) )
           => /\ last'.err = "nil"
              /\ Versions[last'.out[1].ID].path = ToSlash(last'.path)
      ]_vars

\* C15 witness: a store with versions and blobs has been closed and opened
\* again
C15_Witness ==
    /\ last.op = "Open" /\ last.pre = "closed"
    /\ Versions # <<>> /\ blobs # {}

\* the calls that read version rows
ReadOps ==
    {"Get", "Versions", "VersionsAfter", "SimpleSearch", "Search", "FuzzySearch"}

\* C16 - Corruption handling: a read whose statement returns a row with a
\* date text that is no date fails with ErrInvalidDate and hands out no
\* record; every record a read hands out carries the time its row's date
\* text stands for.
C16_InvalidDate ==
    last.op \in ReadOps
    => /\ (\E k \in DOMAIN last.rows : Damaged(last.rows[k]))
             => (last.err = "ErrInvalidDate" /\ last.out = <<>>)
       /\ \A k \in DOMAIN last.out :
             /\ ~Damaged(last.out[k].ID)
             /\ last.out[k].From = Versions[last.out[k].ID].date[2]

\* C16 witness: VersionsAfter met the damaged row of a path that has a sound
\* one too
C16_Witness ==
    /\ last.op = "VersionsAfter" /\ last.err = "ErrInvalidDate"
    /\ Damaged(last.rows[1])
    /\ \E i \in RowsOf(last.path) : ~Damaged(i)

\* the stored file holds all the bytes of the content of its digest
Whole(b) == b.bytes = StoredBytes(ContentOf(b.at[1]), Options)

\* C17 - Blobs are kept (the claim as stated): a stored blob that is
\* completely written and whose digest has its blob row is, after every step
\* of every operation, still stored at its place with the same bytes.
C17_BlobsKept ==
    [][ \A b \in blobs :
            (Whole(b) /\ BlobRowExists(Files, b.at[1])) => b \in blobs'
      ]_vars

\* the digest of the Add of caller p
DigestOf(p) == Checksum(calls[p].src.content)

\* C18 - Adds of the same content at the same time (the claim as stated):
\* when two Adds of one digest that overlap in time have returned, the digest
\* having no blob row when the first began and no copy having failed, both
\* returned no error, the digest has exactly one blob row and two version
\* rows reference it.
C18_ConcurrentAddsBothRecorded ==
    \A p, q \in Callers :
        ( /\ p # q
          /\ calls[p].pc = "done" /\ calls[q].pc = "done"
          /\ calls[p].overlap /\ calls[q].overlap
          /\ calls[p].unseen
          /\ calls[p].err # "copy" /\ calls[q].err # "copy"
          /\ DigestOf(p) = DigestOf(q) )
        => /\ calls[p].err = "nil" /\ calls[q].err = "nil"
           /\ Cardinality(BlobRows(Files, DigestOf(p))) = 1
           /\ Cardinality({i \in DOMAIN Versions :
                               RowChecksum(i) = DigestOf(p)}) = 2

\* C19 - Add is one serialized step (the claim as stated): no two Adds of the
\* same digest are at the same time past a lookup that found the digest
\* absent and before the end of their blob creation.
C19_AddSerialized ==
    \A p, q \in Callers :
        ( /\ p # q
          /\ calls[p].pc \in {"create", "copy", "insertFile"}
          /\ calls[q].pc \in {"create", "copy", "insertFile"} )
        => DigestOf(p) # DigestOf(q)

\* C20 - No half-written blob (the claim as stated): in every state every
\* blob row's digest has a stored file that holds all its bytes.
C20_NoHalfWrittenBlob ==
    \A i \in DOMAIN Files : \E b \in StoredFor(blobs, Files[i]) : Whole(b)

\* C21 - The full-text index mirrors the catalog (the claim as stated): every
\* version row has its entry in the index, and a Search for a word of a
\* row's info text, or a FuzzySearch for a word of its phonetic text, with a
\* limit of at least the number of versions, succeeds and returns the row.
C21_IndexMirrorsCatalog ==
    /\ \A i \in DOMAIN Versions : i \in VersionsFts
    /\ ( /\ last.op \in {"Search", "FuzzySearch"} /\ last.pre = "open"
         /\ last.limit >= Len(Versions) )
       => /\ last.err = "nil"
          /\ \A i \in DOMAIN Versions :
                (\E k \in DOMAIN Versions[i].info :
                    IF last.op = "FuzzySearch"
                    THEN Versions[i].fuzzy[k] = last.term
                    ELSE Versions[i].info[k] = last.term)
                => i \in Returned

\* C22 - Resolution matches storage (the claim as stated): the Local of every
\* record that Get or Versions returns is root/<digest>/<base name>, with
\* the suffix under the Compress option, and a stored file with all the
\* bytes of the record's content is there.
C22_LocalIsStored ==
    (last.op \in {"Get", "Versions"} /\ last.err = "nil")
    => \A k \in DOMAIN last.out :
          LET v == last.out[k]
              at == IF Options THEN localPath(SnappyName(v.Name), v.Checksum)
                    ELSE localPath(v.Name, v.Checksum)
          IN  /\ v.Local = at
              /\ Exists(blobs, v.Local)
              /\ BytesAt(blobs, v.Local) =
                     StoredBytes(ContentOf(v.Checksum), Options)

\* C23 - Digest before mutation: an Add of an open or closed store whose
\* checksum computation fails returns an error, has written nothing, and
\* leaves the blob rows, the version rows and the stored blobs as they were.
C23_ChecksumFirst ==
    [][ (last'.op = "Add" /\ last'.fail = "checksum")
        => /\ last'.err = "checksum"
           /\ ~last'.wrote
           /\ Files' = Files
           /\ Versions' = Versions
           /\ blobs' = blobs
      ]_vars

\* C23 witness: the checksum has just failed for a file whose bytes an open
\* store with a version does not hold yet
C23_Witness ==
    /\ last.op = "Add" /\ last.err = "checksum" /\ last.pre = "open"
    /\ Versions # <<>>
    /\ ~BlobRowExists(Files, last.digest)

\* C24 - Referential integrity: after every step of two callers' Adds, with
\* lookups and inserts that fail, every version row references an existing
\* blob row; the rows there were keep their reference and its digest; and a
\* new row is the row of an Add at its version insert and references the
\* blob row of the digest that Add took of its file.
C24_ReferentialIntegrity ==
    [][ /\ \A i \in DOMAIN Versions' :
              Versions'[i].file # 0 /\ Versions'[i].file \in DOMAIN Files'
        /\ \A i \in DOMAIN Versions :
              /\ i \in DOMAIN Versions'
              /\ Versions'[i].file = Versions[i].file
              /\ Files'[Versions'[i].file] = Files[Versions[i].file]
        /\ Len(Versions') # Len(Versions)
           => /\ Len(Versions') = Len(Versions) + 1
              /\ \E p \in Callers :
                    /\ calls[p].pc = "insertVersion"
                    /\ calls'[p].pc = "done" /\ calls'[p].err = "nil"
                    /\ Versions'[Len(Versions')].path = ToSlash(calls[p].src.path)
                    /\ Files'[Versions'[Len(Versions')].file] = DigestOf(p)
      ]_vars

\* C24 witness: of two Adds of one digest that overlapped, one has recorded
\* its version and the other one, whose lookup found no row, was stopped at
\* an insert
C24_Witness ==
    \E p, q \in Callers :
        /\ p # q
        /\ calls[p].pc = "done" /\ calls[q].pc = "done"
        /\ calls[p].overlap /\ calls[q].overlap
        /\ DigestOf(p) = DigestOf(q)
        /\ calls[p].err = "nil" /\ calls[q].err = "db" /\ calls[q].unseen
        /\ \E i \in DOMAIN Versions : RowChecksum(i) = DigestOf(p)

\* C25 - The reads agree on the path (the claim as stated): on an open store,
\* a Get or a Versions with a limit of at least 1 asked right after a Has of
\* the same path string succeeds with a record exactly when Has answered
\* true.
C25_ReadsAgree ==
    [][ ( /\ last.op = "Has" /\ last.pre = "open"
          /\ last'.path = last.path /\ last'.pre = "open" )
        => /\ last'.op = "Get"
              => (last.found <=> (last'.err = "nil" /\ Len(last'.out) = 1))
           /\ (last'.op = "Versions" /\ last'.limit >= 1)
              => (last.found <=> (last'.err = "nil" /\ Len(last'.out) >= 1))
      ]_vars
====
